---------------------------- MODULE Spec2Model ----------------------------
(***************************************************************************)
(* Model of the analysis pipeline of streamlit_app.py:                     *)
(*   infer_columns -> prepare_merged_df -> generate_insights               *)
(* Column names and text cells are sequences of one-character strings, so  *)
(* that str.lower() and the substring test `k in name` are computed.       *)
(* Python's None is the value None below, the empty string is << >>.       *)
(***************************************************************************)
EXTENDS Integers, Sequences, FiniteSets, TLC

VARIABLES planned, actual, pc, mapping, warn_msgs, merged, insights, err

vars == <<planned, actual, pc, mapping, warn_msgs, merged, insights, err>>

-----------------------------------------------------------------------------
(* Bounds of the model *)

\* Columns a table has besides its first (key) column, at most.
MaxExtraCols == 2

\* Tasks of the planned table in the delay scenarios, at most.
MaxTasks == 4

\* Rows per table in the cell-kind scenarios, at most.
MaxDupRows == 2

\* Resolution of a timestamp: a day has this many time units.
UnitsPerDay == 2

-----------------------------------------------------------------------------
(* Python strings *)

None == <<"<None>">>
EmptyStr == << >>

UpperChars == <<"A","B","C","D","E","F","G","H","I","J","K","L","M",
                "N","O","P","Q","R","S","T","U","V","W","X","Y","Z">>
LowerChars == <<"a","b","c","d","e","f","g","h","i","j","k","l","m",
                "n","o","p","q","r","s","t","u","v","w","x","y","z">>

\* str.lower() on one character
LowerChar(c) ==
    IF \E i \in 1..Len(UpperChars) : UpperChars[i] = c
    THEN LowerChars[CHOOSE i \in 1..Len(UpperChars) : UpperChars[i] = c]
    ELSE c

\* str.lower()
Lower(s) == [i \in 1..Len(s) |-> LowerChar(s[i])]

\* the Python test `sub in s` on strings
Contains(sub, s) ==
    \E i \in 0..(Len(s) - Len(sub)) : SubSeq(s, i + 1, i + Len(sub)) = sub

\* truth value of a str-or-None
Truthy(x) == x # None /\ x # EmptyStr

\* the Python expression `x or y`
Or(x, y) == IF Truthy(x) THEN x ELSE y

\* the Python test `c in df.columns`
InColumns(c, cols) == \E i \in 1..Len(cols) : cols[i] = c

\* first index of a sequence satisfying a set of indices, 0 when none
MinOf(S) == IF S = {} THEN 0 ELSE CHOOSE i \in S : \A j \in S : i <= j
MaxOf(S) == IF S = {} THEN 0 ELSE CHOOSE i \in S : \A j \in S : i >= j

\* keyword literals of the source
kwTask    == <<"t","a","s","k">>
kwPhase   == <<"p","h","a","s","e">>
kwStage   == <<"s","t","a","g","e">>
kwStart   == <<"s","t","a","r","t">>
kwEnd     == <<"e","n","d">>
kwPlanned == <<"p","l","a","n","n","e","d">>
kwActual  == <<"a","c","t","u","a","l">>
kwDate    == <<"d","a","t","e">>
kwPl      == <<"p","l">>
kwAc      == <<"a","c">>
kwUPl     == <<"_","p","l">>
kwUAc     == <<"_","a","c">>
kwUActual == <<"_","a","c","t","u","a","l">>
sfxPL     == <<"_","P","L">>
sfxAC     == <<"_","A","C">>

\* column names
nTask       == <<"T","a","s","k">>
ntask       == <<"t","a","s","k">>
nTASK       == <<"T","A","S","K">>
nActivity   == <<"A","c","t","i","v","i","t","y">>
nactivity   == <<"a","c","t","i","v","i","t","y">>
nName       == <<"N","a","m","e">>
nname       == <<"n","a","m","e">>
nTaskName   == <<"T","a","s","k"," ","N","a","m","e">>
ntask_id    == <<"t","a","s","k","_","i","d">>
nPadTask    == <<" "," ","T","a","s","k"," "," ">>
nID         == <<"I","D">>
nItem       == <<"I","t","e","m">>
nPhase      == <<"P","h","a","s","e">>
nphase      == <<"p","h","a","s","e">>
nPhaseName  == <<"P","h","a","s","e"," ","N","a","m","e">>
nphasename  == <<"p","h","a","s","e"," ","n","a","m","e">>
nStage      == <<"S","t","a","g","e">>
nstage      == <<"s","t","a","g","e">>
nEndNote    == <<"E","n","d"," ","N","o","t","e">>
nEndDate    == <<"E","n","d"," ","D","a","t","e">>
nPlannedEnd == <<"P","l","a","n","n","e","d"," ","E","n","d">>
nActualEnd  == <<"A","c","t","u","a","l"," ","E","n","d">>
nStartDate  == <<"S","t","a","r","t"," ","D","a","t","e">>
nFinish     == <<"F","i","n","i","s","h">>
nBuildStage == <<"B","u","i","l","d"," ","S","t","a","g","e">>

\* Every column name of the inputs, and its renamings by the merge suffixes.
BaseNames ==
    {nTask, ntask, nTASK, nActivity, nactivity, nName, nname, nTaskName, ntask_id,
     nPadTask, nID, nItem, nPhase, nphase, nPhaseName, nphasename, nStage, nstage,
     nEndNote, nEndDate, nPlannedEnd, nActualEnd, nStartDate, nFinish, nBuildStage}
AllNames ==
    BaseNames \cup {n \o sfxPL : n \in BaseNames} \cup {n \o sfxAC : n \in BaseNames}
Keywords ==
    {kwTask, kwPhase, kwStage, kwStart, kwEnd, kwPlanned, kwActual, kwDate,
     kwPl, kwAc, kwUPl, kwUAc, kwUActual}

\* c.lower() and `k in c.lower()` of the names above, computed once
LowerTab == [n \in AllNames |-> Lower(n)]
HasTab   == [n \in AllNames |-> {k \in Keywords : Contains(Lower(k), Lower(n))}]
NameLower(n)  == LowerTab[n]
NameHas(k, n) == k \in HasTab[n]

-----------------------------------------------------------------------------
(* find_column *)

\* lower_cols = {c.lower(): c for c in df.columns}: a dict keeps a key at the
\* position of its first insertion and the value of its last insertion.
\* The loop returns the value of the first key containing every keyword.
find_column(cols, target_keywords) ==
    LET low(i)  == NameLower(cols[i])
        firsts  == {i \in 1..Len(cols) : \A j \in 1..(i - 1) : low(j) # low(i)}
        hits    == {i \in firsts :
                      \A k \in 1..Len(target_keywords) :
                          NameHas(target_keywords[k], cols[i])}
        key     == MinOf(hits)
    IN  IF hits = {} THEN EmptyStr
        ELSE cols[MaxOf({j \in 1..Len(cols) : low(j) = low(key)})]

-----------------------------------------------------------------------------
(* infer_columns *)

TaskCandidates  == <<nTask, ntask, nTASK, nActivity, nactivity, nName, nname>>
PhaseCandidates == <<nPhase, nphase, nPhaseName, nphasename, nStage, nstage>>

\* the columns common to both tables: set(planned.columns) & set(actual.columns)
CommonColumns(pcols, acols) ==
    {pcols[i] : i \in {j \in 1..Len(pcols) : InColumns(pcols[j], acols)}}

\* first column of cols whose lower-cased name contains one of the keywords
FirstContaining(cols, kws) ==
    LET hits == {i \in 1..Len(cols) : \E k \in kws : NameHas(k, cols[i])}
    IN  IF hits = {} THEN None ELSE cols[MinOf(hits)]

\* Lines 104-112: reached only with task_col still None.
LastChance(task_col, common, pick) ==
    IF task_col # None
    THEN [raised |-> FALSE, task |-> task_col, warn |-> << >>]
    ELSE IF common # {}
         THEN [raised |-> FALSE, task |-> pick,
               warn |-> <<[id |-> "common_column_as_task", col |-> pick]>>]
         ELSE [raised |-> TRUE, task |-> None, warn |-> << >>]

\* Lines 93-103: the 'task' substring step, taken when no candidate matched.
\* found is find_column(planned) or find_column(actual), a str; inPl the
\* first planned column containing 'task'.
SubstringTask(t1, found, inPl, pcols) ==
    IF t1 # None THEN t1
    ELSE IF Truthy(found) /\ ~InColumns(found, pcols) /\ inPl # None
         THEN inPl
         ELSE found

\* Lines 88-92: the first candidate both tables have, else None.
ExactTask(pcols, acols) ==
    LET both == {i \in 1..Len(TaskCandidates) :
                    /\ InColumns(TaskCandidates[i], pcols)
                    /\ InColumns(TaskCandidates[i], acols)}
    IN  IF both = {} THEN None ELSE TaskCandidates[MinOf(both)]

\* The task column. pick is the element list(common)[0] yields (a set has
\* no defined order). Result: [raised, task, warn].
InferTask(pcols, acols, pick) ==
    LastChance(SubstringTask(ExactTask(pcols, acols),
                             Or(find_column(pcols, <<kwTask>>), find_column(acols, <<kwTask>>)),
                             FirstContaining(pcols, {kwTask}),
                             pcols),
               CommonColumns(pcols, acols), pick)

\* The optional phase column.
InferPhase(pcols, acols) ==
    LET hits == {i \in 1..Len(PhaseCandidates) :
                    \/ InColumns(PhaseCandidates[i], pcols)
                    \/ InColumns(PhaseCandidates[i], acols)}
        inPl == FirstContaining(pcols, {kwPhase, kwStage})
        inAc == FirstContaining(acols, {kwPhase, kwStage})
    IN  IF hits # {} THEN PhaseCandidates[MinOf(hits)]
        ELSE IF Truthy(inPl) THEN inPl
        ELSE inAc

\* One date slot before the broader matching: qualifier is "planned"/"actual".
DateSlot(cols, direction, qualifier) ==
    Or(find_column(cols, <<direction, qualifier>>), find_column(cols, <<direction>>))

\* `if not (ep and ea)`: the broader matching, with the qualifier "date",
\* fills the slots that are still empty. Result: [sp, ep, sa, ea].
BroaderDates(pcols, acols, sp, ep, sa, ea) ==
    IF ~(Truthy(ep) /\ Truthy(ea))
    THEN [sp |-> Or(sp, DateSlot(pcols, kwStart, kwDate)),
          ep |-> Or(ep, DateSlot(pcols, kwEnd, kwDate)),
          sa |-> Or(sa, DateSlot(acols, kwStart, kwDate)),
          ea |-> Or(ea, DateSlot(acols, kwEnd, kwDate))]
    ELSE [sp |-> sp, ep |-> ep, sa |-> sa, ea |-> ea]

\* The four date slots.
InferDates(pcols, acols) ==
    BroaderDates(pcols, acols,
                 DateSlot(pcols, kwStart, kwPlanned), DateSlot(pcols, kwEnd, kwPlanned),
                 DateSlot(acols, kwStart, kwActual), DateSlot(acols, kwEnd, kwActual))

NoMapping ==
    [task |-> None, phase |-> None, start_planned |-> EmptyStr,
     end_planned |-> EmptyStr, start_actual |-> EmptyStr, end_actual |-> EmptyStr]

\* the warnings about the end-date slots that stayed empty
EndWarnings(end_planned, end_actual) ==
    (IF ~Truthy(end_planned)
     THEN <<[id |-> "no_end_planned", col |-> EmptyStr]>> ELSE << >>)
    \o (IF ~Truthy(end_actual)
        THEN <<[id |-> "no_end_actual", col |-> EmptyStr]>> ELSE << >>)

\* the mapping and the warnings, from the task t, the phase and the dates d
InferResult(t, phase, d) ==
    IF t.raised
    THEN [raised |-> TRUE, mapping |-> NoMapping, warn_msgs |-> << >>]
    ELSE [raised |-> FALSE,
          mapping |-> [task |-> t.task, phase |-> phase,
                       start_planned |-> Or(d.sp, EmptyStr), end_planned |-> Or(d.ep, EmptyStr),
                       start_actual |-> Or(d.sa, EmptyStr), end_actual |-> Or(d.ea, EmptyStr)],
          warn_msgs |-> t.warn \o EndWarnings(Or(d.ep, EmptyStr), Or(d.ea, EmptyStr))]

\* infer_columns(planned, actual). Result: [raised, mapping, warn_msgs].
infer_columns(pcols, acols, pick) ==
    InferResult(InferTask(pcols, acols, pick), InferPhase(pcols, acols),
                InferDates(pcols, acols))

-----------------------------------------------------------------------------
(* Tables and cells *)

\* A cell of a sheet: blank (NaN), text that is no date, text that spells the
\* date of day t ("2024-01-10"), or a datetime value at time unit t.
Blank      == [k |-> "blank",    s |-> << >>, t |-> 0]
Txt(s)     == [k |-> "text",     s |-> s,     t |-> 0]
DateTxt(d) == [k |-> "datetext", s |-> << >>, t |-> d]
Stamp(t)   == [k |-> "datetime", s |-> << >>, t |-> t]

IsNull(c) == c.k = "blank"

Digits == <<"1","2","3","4","5","6","7","8","9">>
TaskName(i) == Txt(<<"T", Digits[i]>>)
tA == Txt(<<"A">>)
tB == Txt(<<"B">>)
tC == Txt(<<"C">>)
tX == Txt(<<"X">>)
phP1 == Txt(<<"P","1">>)
phP2 == Txt(<<"P","2">>)

Table(cols, rows) == [columns |-> cols, rows |-> rows]

\* sequences of distinct elements of S, of length at most n
SeqsDistinct(S, n) ==
    UNION {{q \in [1..k -> S] : \A i, j \in 1..k : i # j => q[i] # q[j]} : k \in 0..n}

\* sequences of elements of S, of length lo..hi
SeqsOf(S, lo, hi) == UNION {[1..k -> S] : k \in lo..hi}

-----------------------------------------------------------------------------
(* Inputs: the two uploaded sheets *)

\* (key column of planned, key column of actual)
KeyPairs ==
    {<<nTask, nTask>>, <<nTaskName, ntask_id>>, <<nPadTask, ntask>>,
     <<nID, nID>>, <<nID, nItem>>, <<nID, ntask_id>>}
PlannedExtraNames == {nEndNote, nEndDate, nPlannedEnd, nPhase, nStartDate}
ActualExtraNames  == {nEndDate, nActualEnd, nPlannedEnd, nBuildStage}

\* Rows of a schema scenario: tasks A, B planned and B, C actual; every other
\* cell holds a date text that differs by table, column and row.
SchemaCell(base, name, i, j) ==
    IF NameHas(kwPhase, name) \/ NameHas(kwStage, name)
    THEN (IF i = 1 THEN phP1 ELSE phP2)
    ELSE DateTxt(base + 2 * j + i)

SchemaTable(cols, tasks, base) ==
    Table(cols, [i \in 1..Len(tasks) |->
                    [j \in 1..Len(cols) |->
                        IF j = 1 THEN tasks[i] ELSE SchemaCell(base, cols[j], i, j)]])

\* Scenario 1: many column layouts, fixed rows.
InitSchemas ==
    \E kp \in KeyPairs :
    \E pe \in SeqsDistinct(PlannedExtraNames, MaxExtraCols),
       ae \in SeqsDistinct(ActualExtraNames, MaxExtraCols) :
        /\ planned = SchemaTable(<<kp[1]>> \o pe, <<tA, tB>>, 10)
        /\ actual  = SchemaTable(<<kp[2]>> \o ae, <<tB, tC>>, 30)

\* Scenario 2: the layout [Task, Phase, Planned End] / [Task, Actual End];
\* every planned task ends on day 20; each of them ends in the actual sheet
\* on a day of ActualDays, or is missing from it (day 0); the actual sheet
\* also holds task X, which was never planned.
PlannedEnd == DateTxt(20)
ActualDays == {0, 17, 20, 22, 25, 32}
IsAbsent(day) == day = 0
PhaseOfTask(i) == IF i <= 2 THEN phP1 ELSE IF i = 3 THEN phP2 ELSE Blank

InitDelays ==
    \E n \in 1..MaxTasks :
    \E ends \in [1..n -> ActualDays] :
        /\ planned = Table(<<nTask, nPhase, nPlannedEnd>>,
                           [i \in 1..n |-> <<TaskName(i), PhaseOfTask(i), PlannedEnd>>])
        /\ actual  = Table(<<nTask, nActualEnd>>,
                           [j \in 1..Cardinality({i \in 1..n : ~IsAbsent(ends[i])}) |->
                               LET i == CHOOSE i \in 1..n :
                                          /\ ~IsAbsent(ends[i])
                                          /\ Cardinality({h \in 1..i : ~IsAbsent(ends[h])}) = j
                               IN  <<TaskName(i), DateTxt(ends[i])>>]
                           \o <<<<tX, DateTxt(25)>>>>)

\* Scenario 3: the layout [Task, Planned End] / [Task, Actual End] with
\* repeated task names and every kind of cell in the end-date columns.
PlannedEndCells == {Blank, Txt(<<"t","b","c">>), DateTxt(10), DateTxt(15),
                    Stamp(10 * UnitsPerDay + 1), Stamp(15 * UnitsPerDay)}
ActualEndCells  == {Blank, DateTxt(10), Stamp(15 * UnitsPerDay),
                    Stamp(12 * UnitsPerDay + 1)}

InitCells ==
    \E prow \in SeqsOf({tA} \X PlannedEndCells, 1, MaxDupRows),
       arow \in SeqsOf({tA, tB} \X ActualEndCells, 1, 2) :
        /\ planned = Table(<<nTask, nPlannedEnd>>, prow)
        /\ actual  = Table(<<nTask, nActualEnd>>, arow)

\* Scenario 4: the layout [Task, Planned End] / [Task, Actual End] with a
\* column Phase in the planned sheet, in the actual sheet, in both or in
\* neither; tasks T1, T2, T3 of the phases P1, P2, P1, planned to end on day
\* 20, each with its own actual end.
PhaseDays == {17, 22, 32}

InitPhases ==
    \E inPl, inAc \in BOOLEAN :
    \E ends \in [1..3 -> PhaseDays] :
        LET ph(i) == IF i = 2 THEN phP2 ELSE phP1
            pcols == <<nTask>> \o (IF inPl THEN <<nPhase>> ELSE << >>) \o <<nPlannedEnd>>
            acols == <<nTask>> \o (IF inAc THEN <<nPhase>> ELSE << >>) \o <<nActualEnd>>
        IN  /\ planned = Table(pcols,
                   [i \in 1..3 |-> <<TaskName(i)>>
                                     \o (IF inPl THEN <<ph(i)>> ELSE << >>)
                                     \o <<PlannedEnd>>])
            /\ actual = Table(acols,
                   [i \in 1..3 |-> <<TaskName(i)>>
                                     \o (IF inAc THEN <<ph(i)>> ELSE << >>)
                                     \o <<DateTxt(ends[i])>>])

\* Scenario 5: the layout [Task, Planned End] / [Task, Actual End] with task
\* cells that differ in surrounding blanks, in runs of inner blanks or in
\* letter case.
Spellings ==
    {<<"A">>, <<"A", " ">>, <<"a">>, <<"A", " ", "B">>, <<"A", " ", " ", "B">>}

InitSpellings ==
    \E p \in Spellings :
    \E as \in SeqsOf(Spellings, 1, 2) :
        /\ planned = Table(<<nTask, nPlannedEnd>>, <<<<Txt(p), PlannedEnd>>>>)
        /\ actual  = Table(<<nTask, nActualEnd>>,
                           [j \in 1..Len(as) |-> <<Txt(as[j]), DateTxt(22 + j)>>])

EmptyMerged == [columns |-> << >>, end_pl |-> EmptyStr, end_ac |-> EmptyStr, rows |-> << >>]

Init ==
    /\ InitSchemas \/ InitDelays \/ InitCells \/ InitPhases \/ InitSpellings
    /\ pc = "loaded"
    /\ mapping = NoMapping
    /\ warn_msgs = << >>
    /\ merged = EmptyMerged
    /\ insights = [none |-> TRUE]
    /\ err = "none"

-----------------------------------------------------------------------------
(* robust_date_parse *)

\* A parsed value is << >> (NaT) or <<t>>, t in time units. A datetime value
\* is kept; text is converted by pd.to_datetime(errors="coerce"), cell by
\* cell: a date text gives midnight of its day, any other text and a blank
\* give NaT.
NaT == << >>
robust_date_parse(c) ==
    CASE c.k = "datetime" -> <<c.t>>
      [] c.k = "datetext" -> <<c.t * UnitsPerDay>>
      [] OTHER            -> NaT

\* A variant kept for comparison: the whole days of a time difference, rounded toward zero
TimedeltaDays_TowardZero(td) ==
    IF td >= 0 THEN td \div UnitsPerDay ELSE -((-td) \div UnitsPerDay)

\* Timedelta.days: the whole days of a time difference, rounded down
TimedeltaDays(td) == td \div UnitsPerDay

\* (end_actual_dt - end_planned_dt).dt.days; NaN when either is NaT
DelayDays(end_planned_dt, end_actual_dt) ==
    IF end_planned_dt = NaT \/ end_actual_dt = NaT
    THEN << >>
    ELSE <<TimedeltaDays(end_actual_dt[1] - end_planned_dt[1])>>

-----------------------------------------------------------------------------
(* prepare_merged_df *)

IndexOf(c, cols) == MinOf({i \in 1..Len(cols) : cols[i] = c})

\* Columns of pd.merge(planned, actual, on=key, suffixes=("_PL", "_AC")):
\* the planned columns, then the actual columns without the key; a name
\* both tables use (other than the key) takes the suffix of its side.
\* side: "K" the key, "L" planned, "R" actual; idx: the column in its table.
MergeColumns(pcols, acols, key) ==
    LET kpos  == IndexOf(key, acols)
        left  == [i \in 1..Len(pcols) |->
                    [name |-> IF pcols[i] # key /\ InColumns(pcols[i], acols)
                              THEN pcols[i] \o sfxPL ELSE pcols[i],
                     side |-> IF pcols[i] = key THEN "K" ELSE "L",
                     idx  |-> i]]
        right == [j \in 1..(Len(acols) - 1) |->
                    LET i == IF j < kpos THEN j ELSE j + 1
                    IN  [name |-> IF InColumns(acols[i], pcols)
                                  THEN acols[i] \o sfxAC ELSE acols[i],
                         side |-> "R",
                         idx  |-> i]]
    IN  left \o right

\* The row pairs <<l, r>> of the outer join: every planned row l with each
\* actual row r of an equal key, or with r = 0 when there is none; then every
\* actual row without a planned row, with l = 0. (The order of the rows is
\* that of the left table, then the right one; nothing below depends on it.)
JoinPairs(pkeys, akeys) ==
    LET matched   == {<<l, r>> \in (1..Len(pkeys)) \X (1..Len(akeys)) : pkeys[l] = akeys[r]}
        leftOnly  == {<<l, 0>> : l \in {l \in 1..Len(pkeys) :
                                          \A r \in 1..Len(akeys) : pkeys[l] # akeys[r]}}
        rightOnly == {<<0, r>> : r \in {r \in 1..Len(akeys) :
                                          \A l \in 1..Len(pkeys) : pkeys[l] # akeys[r]}}
    IN  matched \cup leftOnly \cup rightOnly

\* rank of a pair in the merged frame
PairBefore(a, b, nl) ==
    LET la == IF a[1] = 0 THEN nl + 1 ELSE a[1]
        lb == IF b[1] = 0 THEN nl + 1 ELSE b[1]
    IN  la < lb \/ (la = lb /\ a[2] < b[2])

JoinRows(pkeys, akeys) ==
    LET P == JoinPairs(pkeys, akeys)
    IN  [k \in 1..Cardinality(P) |->
            CHOOSE a \in P : Cardinality({b \in P : PairBefore(b, a, Len(pkeys))}) = k - 1]

\* the cell of merged column col (a record of MergeColumns) in row <<l, r>>
MergedCell(P, A, key, col, pair) ==
    CASE col.side = "K" -> IF pair[1] > 0 THEN P.rows[pair[1]][col.idx]
                           ELSE A.rows[pair[2]][IndexOf(key, A.columns)]
      [] col.side = "L" -> IF pair[1] > 0 THEN P.rows[pair[1]][col.idx] ELSE Blank
      [] col.side = "R" -> IF pair[2] > 0 THEN A.rows[pair[2]][col.idx] ELSE Blank

\* first name of a sequence of names satisfying Test, "" when none
FirstName(names, matching) ==
    LET hits == {i \in 1..Len(names) : names[i] \in matching}
    IN  IF hits = {} THEN EmptyStr ELSE names[MinOf(hits)]

IsEndPlCandidate(c) == NameHas(kwEnd, c) /\ (NameHas(kwPl, c) \/ NameHas(kwPlanned, c))
IsEndAcCandidate(c) == NameHas(kwEnd, c) /\ (NameHas(kwAc, c) \/ NameHas(kwActual, c))
IsEndUPl(c)         == NameHas(kwEnd, c) /\ NameHas(kwUPl, c)
IsEndUAc(c)         == NameHas(kwEnd, c) /\ (NameHas(kwUAc, c) \/ NameHas(kwUActual, c))
IsEnd(c)            == NameHas(kwEnd, c)

\* A variant kept for comparison: the name is used as it is, without a suffix
WithSuffix_AsMapped(x, sfx, names) == x

\* `if x and x not in merged.columns: if x + sfx in merged.columns: x = x + sfx`
WithSuffix(x, sfx, names) ==
    IF Truthy(x) /\ ~InColumns(x, names) /\ InColumns(x \o sfx, names)
    THEN x \o sfx ELSE x

\* the column the planned end dates are read from
EndPlannedColumn(m, names, pcols) ==
    LET e1 == Or(m.end_planned, FirstName(names, {c \in AllNames : IsEndPlCandidate(c)}))
        e2 == WithSuffix(e1, sfxPL, names)
        e3 == IF ~Truthy(e2) THEN FirstName(names, {c \in AllNames : IsEndUPl(c)}) ELSE e2
    IN  IF ~Truthy(e3) THEN FirstName(pcols, {c \in AllNames : IsEnd(c)}) ELSE e3

\* the column the actual end dates are read from
EndActualColumn(m, names, acols) ==
    LET e1 == Or(m.end_actual, FirstName(names, {c \in AllNames : IsEndAcCandidate(c)}))
        e2 == WithSuffix(e1, sfxAC, names)
        e3 == IF ~Truthy(e2) THEN FirstName(names, {c \in AllNames : IsEndUAc(c)}) ELSE e2
    IN  IF ~Truthy(e3) THEN FirstName(acols, {c \in AllNames : IsEnd(c)}) ELSE e3

\* merged["Phase"]: the column mapping["phase"] names if the merged frame has
\* it, the column "Phase" if no phase was mapped, None (a null) otherwise.
\* names: the columns of the merged frame at that point.
PhaseColumn(m, names) ==
    IF Truthy(m.phase)
    THEN (IF InColumns(m.phase, names) THEN m.phase ELSE None)
    ELSE (IF InColumns(nPhase, names) THEN nPhase ELSE None)

\* one row of the returned frame: the key, the phase, the parsed end dates
\* and the delay; l and r are the planned and the actual row it joins (0: none)
MergedRow(pair, task, phase, end_planned_dt, end_actual_dt) ==
    [l |-> pair[1], r |-> pair[2],
     Task |-> task,
     Phase |-> phase,
     end_planned_dt |-> end_planned_dt,
     end_actual_dt |-> end_actual_dt,
     Delay_Days |-> DelayDays(end_planned_dt, end_actual_dt)]

\* the cell of the merged column called name in row pair
CellOf(P, A, key, mcols, names, name, pair) ==
    MergedCell(P, A, key, mcols[IndexOf(name, names)], pair)

\* lines 224-240 on every row of the join
MergedRows(P, A, m, mcols, names, end_pl, end_ac, phase, pairs) ==
    [k \in 1..Len(pairs) |->
        MergedRow(pairs[k],
                  CellOf(P, A, m.task, mcols, names, m.task, pairs[k]),
                  IF phase = None THEN Blank
                  ELSE CellOf(P, A, m.task, mcols, names, phase, pairs[k]),
                  robust_date_parse(CellOf(P, A, m.task, mcols, names, end_pl, pairs[k])),
                  robust_date_parse(CellOf(P, A, m.task, mcols, names, end_ac, pairs[k])))]

KeyColumn(T, key) == [i \in 1..Len(T.rows) |-> T.rows[i][IndexOf(key, T.columns)]]

\* lines 219-246, with the end columns chosen
PrepareWithEnds(P, A, m, mcols, names, end_pl, end_ac) ==
    IF ~Truthy(end_pl) \/ ~Truthy(end_ac)
    THEN [raised |-> "ValueError:prepare_merged_df", merged |-> EmptyMerged]
    ELSE IF ~InColumns(end_pl, names) \/ ~InColumns(end_ac, names)
    THEN [raised |-> "KeyError:end_column", merged |-> EmptyMerged]
    ELSE [raised |-> "none",
          merged |-> [columns |-> names, end_pl |-> end_pl, end_ac |-> end_ac,
                      rows |-> MergedRows(P, A, m, mcols, names, end_pl, end_ac,
                                          PhaseColumn(m, names),
                                          JoinRows(KeyColumn(P, m.task), KeyColumn(A, m.task)))]]

\* lines 176-217, with the merged columns
PrepareWithColumns(P, A, m, mcols, names) ==
    PrepareWithEnds(P, A, m, mcols, names,
                    EndPlannedColumn(m, names, P.columns),
                    EndActualColumn(m, names, A.columns))

ColumnNames(mcols) == [i \in 1..Len(mcols) |-> mcols[i].name]

\* prepare_merged_df(planned, actual, mapping). Result: [raised, merged];
\* raised is "none" or the exception. pd.merge raises KeyError when a table
\* lacks the key column.
prepare_merged_df(P, A, m) ==
    IF ~InColumns(m.task, P.columns) \/ ~InColumns(m.task, A.columns)
    THEN [raised |-> "KeyError:merge", merged |-> EmptyMerged]
    ELSE PrepareWithColumns(P, A, m,
                            MergeColumns(P.columns, A.columns, m.task),
                            ColumnNames(MergeColumns(P.columns, A.columns, m.task)))

-----------------------------------------------------------------------------
(* generate_insights *)

RECURSIVE SumSeq(_)
SumSeq(q) == IF q = << >> THEN 0 ELSE Head(q) + SumSeq(Tail(q))

HasDelay(row) == row.Delay_Days # << >>

\* A mean is kept as the pair [num, den] (den > 0), the float num / den.
Mean(q) == [num |-> SumSeq(q), den |-> Len(q)]
MeanGeq(a, n) == a.num >= n * a.den
MeanGeqMean(a, b) == a.num * b.den >= b.num * a.den

\* the Delay_Days of rows, as numbers
Delays(rows) == [i \in 1..Len(rows) |-> rows[i].Delay_Days[1]]

\* A variant kept for comparison: the sum of all the delays, the negative ones included
TotalDelay_NetSum(numeric) == SumSeq(Delays(numeric))

\* numeric.loc[numeric["Delay_Days"] > 0, "Delay_Days"].sum(min_count=1),
\* then `int(total) if pd.notna(total) else 0`
TotalDelay(numeric) ==
    LET pos == SelectSeq(Delays(numeric), LAMBDA d : d > 0)
    IN  IF pos = << >> THEN 0 ELSE SumSeq(pos)

\* (numeric["Delay_Days"] > 0).sum(), (numeric["Delay_Days"] < 0).sum() and
\* the count of the non-null Task values
NumBehind(rows) == Len(SelectSeq(rows, LAMBDA row : row.Delay_Days[1] > 0))
NumAhead(rows)  == Len(SelectSeq(rows, LAMBDA row : row.Delay_Days[1] < 0))
NumTasks(rows)  == Len(SelectSeq(rows, LAMBDA row : ~IsNull(row.Task)))

\* A variant kept for comparison: HIGH already when the total equals 5 times the task count
RiskLevel_TotalGeq(avg_delay_days, total_delay_days, num_tasks) ==
    IF MeanGeq(avg_delay_days, 10) \/ total_delay_days >= num_tasks * 5
    THEN "HIGH"
    ELSE IF MeanGeq(avg_delay_days, 3)
    THEN "MEDIUM"
    ELSE "LOW"

\* the heuristics of the risk level
RiskLevel(avg_delay_days, total_delay_days, num_tasks) ==
    IF MeanGeq(avg_delay_days, 10) \/ total_delay_days > num_tasks * 5
    THEN "HIGH"
    ELSE IF MeanGeq(avg_delay_days, 3)
    THEN "MEDIUM"
    ELSE "LOW"

RiskReason(level) ==
    CASE level = "HIGH"   -> "Average delay >= 10 days or total delay large relative to project size."
      [] level = "MEDIUM" -> "Average delay between 3 and 10 days."
      [] OTHER            -> "Average delay under 3 days."

\* numeric.groupby("Phase").agg(...): one record per non-null Phase value
PhaseGroups(numeric) ==
    LET values == {numeric[i].Phase : i \in {j \in 1..Len(numeric) : ~IsNull(numeric[j].Phase)}}
        group(v) == SelectSeq(numeric, LAMBDA row : row.Phase = v)
    IN  {[Phase        |-> v,
          tasks_total  |-> NumTasks(group(v)),
          tasks_behind |-> NumBehind(group(v)),
          tasks_ahead  |-> NumAhead(group(v)),
          avg_delay    |-> Mean(Delays(group(v)))] : v \in values}

\* sort_values("avg_delay", ascending=False): the orders of the groups with
\* the means descending (groups of an equal mean in any order)
SortedPhases(numeric) ==
    LET G == PhaseGroups(numeric)
    IN  {q \in [1..Cardinality(G) -> G] :
            /\ \A i, j \in 1..Cardinality(G) : i # j => q[i] # q[j]
            /\ \A i \in 1..(Cardinality(G) - 1) : MeanGeqMean(q[i].avg_delay, q[i + 1].avg_delay)}

NoPhases == [present |-> FALSE, table |-> << >>]

\* A variant kept for comparison: no early return: the counts are filled in on empty data too
generate_insights_NoEarlyReturn(rows, phases) ==
    [phases           |-> phases,
     total_delay_days |-> TotalDelay(SelectSeq(rows, HasDelay)),
     avg_delay_days   |-> Mean(Delays(SelectSeq(rows, HasDelay))),
     num_tasks        |-> Len(SelectSeq(rows, HasDelay)),
     num_behind       |-> NumBehind(SelectSeq(rows, HasDelay)),
     num_ahead        |-> NumAhead(SelectSeq(rows, HasDelay)),
     risk             |-> [level |-> "LOW", reason |-> RiskReason("LOW")],
     summary          |-> IF SelectSeq(rows, HasDelay) = << >>
                          THEN "No valid delay data detected."
                          ELSE "Out of {num_tasks} tasks, ..."]

\* generate_insights(merged); phases is the sorted phase table
generate_insights(rows, phases) ==
    LET numeric == SelectSeq(rows, HasDelay)
        total   == TotalDelay(numeric)
        avg     == Mean(Delays(numeric))
        n       == Len(numeric)
    IN  IF numeric = << >>
        THEN [summary |-> "No valid delay data detected."]
        ELSE [phases           |-> phases,
              total_delay_days |-> total,
              avg_delay_days   |-> avg,
              num_tasks        |-> n,
              num_behind       |-> NumBehind(numeric),
              num_ahead        |-> NumAhead(numeric),
              risk             |-> [level  |-> RiskLevel(avg, total, n),
                                    reason |-> RiskReason(RiskLevel(avg, total, n))],
              summary          |-> "Out of {num_tasks} tasks, ..."]

-----------------------------------------------------------------------------
(* The analysis flow of the Analyse button *)

\* mapping, warn_msg = infer_columns(planned_df, actual_df)
InferReturn(r) ==
    /\ pc' = IF r.raised THEN "error" ELSE "inferred"
    /\ err' = IF r.raised THEN "ValueError:infer_columns" ELSE "none"
    /\ mapping' = r.mapping
    /\ warn_msgs' = r.warn_msgs

CommonPicks(common) == IF common = {} THEN {None} ELSE common

InferColumns ==
    /\ pc = "loaded"
    /\ \E pick \in CommonPicks(CommonColumns(planned.columns, actual.columns)) :
          InferReturn(infer_columns(planned.columns, actual.columns, pick))
    /\ UNCHANGED <<planned, actual, merged, insights>>

\* merged = prepare_merged_df(planned_df, actual_df, mapping)
PrepareReturn(r) ==
    /\ pc' = IF r.raised = "none" THEN "merged" ELSE "error"
    /\ err' = r.raised
    /\ merged' = r.merged

PrepareMergedDf ==
    /\ pc = "inferred"
    /\ PrepareReturn(prepare_merged_df(planned, actual, mapping))
    /\ UNCHANGED <<planned, actual, mapping, warn_msgs, insights>>

\* insights = generate_insights(merged)
PhaseTable(numeric, q) ==
    IF \E i \in 1..Len(numeric) : ~IsNull(numeric[i].Phase)
    THEN [present |-> TRUE, table |-> q] ELSE NoPhases

InsightsOf(rows, numeric) ==
    \E q \in SortedPhases(numeric) :
        insights' = generate_insights(rows, PhaseTable(numeric, q))

GenerateInsights ==
    /\ pc = "merged"
    /\ InsightsOf(merged.rows, SelectSeq(merged.rows, HasDelay))
    /\ pc' = "done"
    /\ UNCHANGED <<planned, actual, mapping, warn_msgs, merged, err>>

Next == InferColumns \/ PrepareMergedDf \/ GenerateInsights

Spec == Init /\ [][Next]_vars

-----------------------------------------------------------------------------
(* Vocabulary of the properties *)

\* infer_columns has returned a mapping
InferReturned == pc \in {"inferred", "merged", "done"}
                   \/ (pc = "error" /\ err # "ValueError:infer_columns")

\* prepare_merged_df has been called, and has returned
PrepareCalled   == pc \in {"merged", "done"}
                     \/ (pc = "error" /\ err # "ValueError:infer_columns")
PrepareReturned == pc \in {"merged", "done"}

Range(q) == {q[i] : i \in 1..Len(q)}
ColumnSet(T) == Range(T.columns)

\* how many elements of the sequence q equal v
Occurrences(q, v) == Cardinality({i \in 1..Len(q) : q[i] = v})

\* the column called name of table T
ColumnOf(T, name) == [i \in 1..Len(T.rows) |-> T.rows[i][IndexOf(name, T.columns)]]

\* a cell that reads as a date, and the time it denotes
IsDate(c) == c.k \in {"datetime", "datetext"}
TimeOf(c) == IF c.k = "datetime" THEN c.t ELSE c.t * UnitsPerDay

MergedTasks == [k \in 1..Len(merged.rows) |-> merged.rows[k].Task]

-----------------------------------------------------------------------------
(* C1 *)

\* C1 (as claimed): once prepare_merged_df has been called with a mapping
\* returned by infer_columns, every task value of the planned or the actual
\* table occurs in the reconciled output once per join combination (np * na
\* times when both tables hold it, np or na times otherwise), and a row of a
\* task held by one table only has a null Delay_Days.
C1_OuterJoinComplete ==
    PrepareCalled =>
        /\ PrepareReturned
        /\ \A v \in Range(ColumnOf(planned, mapping.task)) \cup Range(ColumnOf(actual, mapping.task)) :
              LET np == Occurrences(ColumnOf(planned, mapping.task), v)
                  na == Occurrences(ColumnOf(actual, mapping.task), v)
              IN  Occurrences(MergedTasks, v) = IF np > 0 /\ na > 0 THEN np * na ELSE np + na
        /\ \A k \in 1..Len(merged.rows) :
              (merged.rows[k].l = 0 \/ merged.rows[k].r = 0) => merged.rows[k].Delay_Days = << >>

\* What does hold: whenever prepare_merged_df returns, the tasks of both
\* tables are all there, once per join combination.
OuterJoinCompleteWhenReturned ==
    PrepareReturned =>
        \A v \in Range(ColumnOf(planned, mapping.task)) \cup Range(ColumnOf(actual, mapping.task)) :
            LET np == Occurrences(ColumnOf(planned, mapping.task), v)
                na == Occurrences(ColumnOf(actual, mapping.task), v)
            IN  Occurrences(MergedTasks, v) = IF np > 0 /\ na > 0 THEN np * na ELSE np + na

-----------------------------------------------------------------------------
(* C2 *)

\* C2: in every reconciled row Delay_Days is non-null exactly when both end
\* dates of the row parsed to a date, and then it is the whole number of days
\* from the planned end to the actual end, rounded down (day 10 to day 15
\* gives 5, day 15 to day 10 gives -5); the two end dates are the parsed cells
\* of the end columns the mapping names, in the planned row and the actual
\* row the output row joins.
C2_DelayFromEndDates ==
    PrepareReturned =>
        \A k \in 1..Len(merged.rows) :
            LET row == merged.rows[k]
                pl  == row.end_planned_dt
                ac  == row.end_actual_dt
                d   == row.Delay_Days
            IN  /\ (d # << >>) <=> (pl # NaT /\ ac # NaT)
                /\ d # << >> =>
                      /\ d[1] * UnitsPerDay <= ac[1] - pl[1]
                      /\ ac[1] - pl[1] < (d[1] + 1) * UnitsPerDay
                /\ (pl = <<10 * UnitsPerDay>> /\ ac = <<15 * UnitsPerDay>>) => d = <<5>>
                /\ (pl = <<15 * UnitsPerDay>> /\ ac = <<10 * UnitsPerDay>>) => d = <<-5>>
                /\ Truthy(mapping.end_planned) =>
                      LET c == IF row.l = 0 THEN Blank
                               ELSE ColumnOf(planned, mapping.end_planned)[row.l]
                      IN  pl = IF IsDate(c) THEN <<TimeOf(c)>> ELSE NaT
                /\ Truthy(mapping.end_actual) =>
                      LET c == IF row.r = 0 THEN Blank
                               ELSE ColumnOf(actual, mapping.end_actual)[row.r]
                      IN  ac = IF IsDate(c) THEN <<TimeOf(c)>> ELSE NaT

\* C2 witness: one output holds a task that ended 5 days late, one that ended
\* 5 days early, one that ended less than a day early, and one without delay.
C2_Witness ==
    /\ PrepareReturned
    /\ \E k \in 1..Len(merged.rows) :
          /\ merged.rows[k].end_planned_dt = <<10 * UnitsPerDay>>
          /\ merged.rows[k].end_actual_dt = <<15 * UnitsPerDay>>
          /\ merged.rows[k].Delay_Days = <<5>>
    /\ \E k \in 1..Len(merged.rows) :
          /\ merged.rows[k].end_planned_dt = <<15 * UnitsPerDay>>
          /\ merged.rows[k].end_actual_dt = <<10 * UnitsPerDay>>
          /\ merged.rows[k].Delay_Days = <<-5>>

\* a second case of C2: an actual end less than a day before the planned end
\* is a delay of -1, and an unparsed end date gives no delay
C2_WitnessFloor ==
    /\ PrepareReturned
    /\ \E k \in 1..Len(merged.rows) :
          /\ merged.rows[k].end_planned_dt = <<10 * UnitsPerDay + 1>>
          /\ merged.rows[k].end_actual_dt = <<10 * UnitsPerDay>>
          /\ merged.rows[k].Delay_Days = <<-1>>
    /\ \E k \in 1..Len(merged.rows) :
          /\ merged.rows[k].l > 0 /\ merged.rows[k].r > 0
          /\ merged.rows[k].Delay_Days = << >>

\* one-sided rows of a returned output have no delay
OneSidedRowsHaveNoDelay ==
    PrepareReturned =>
        \A k \in 1..Len(merged.rows) :
            (merged.rows[k].l = 0 \/ merged.rows[k].r = 0) => merged.rows[k].Delay_Days = << >>

-----------------------------------------------------------------------------
(* C3, C4, C5 *)

\* the three ways infer_columns has of finding no task column
NoCandidateInBoth ==
    \A i \in 1..Len(TaskCandidates) :
        ~(TaskCandidates[i] \in ColumnSet(planned) /\ TaskCandidates[i] \in ColumnSet(actual))
NoTaskLikeColumn ==
    \A c \in ColumnSet(planned) \cup ColumnSet(actual) : ~Contains(kwTask, Lower(c))
NoCommonColumn == ColumnSet(planned) \cap ColumnSet(actual) = {}

\* C3 (as claimed): whenever infer_columns returns, the task column of the
\* mapping is a column of the planned table and of the actual table, the
\* phase column (if any) is a column of one of them, and every date slot that
\* is filled names a column of its table.
C3_MappingNamesExistingColumns ==
    InferReturned =>
        /\ mapping.task \in ColumnSet(planned)
        /\ mapping.task \in ColumnSet(actual)
        /\ mapping.phase # None => mapping.phase \in ColumnSet(planned) \cup ColumnSet(actual)
        /\ mapping.start_planned # EmptyStr => mapping.start_planned \in ColumnSet(planned)
        /\ mapping.end_planned # EmptyStr => mapping.end_planned \in ColumnSet(planned)
        /\ mapping.start_actual # EmptyStr => mapping.start_actual \in ColumnSet(actual)
        /\ mapping.end_actual # EmptyStr => mapping.end_actual \in ColumnSet(actual)

\* the part of C3 about the other fields does hold
OtherFieldsNameExistingColumns ==
    InferReturned =>
        /\ mapping.phase # None => mapping.phase \in ColumnSet(planned) \cup ColumnSet(actual)
        /\ mapping.start_planned # EmptyStr => mapping.start_planned \in ColumnSet(planned)
        /\ mapping.end_planned # EmptyStr => mapping.end_planned \in ColumnSet(planned)
        /\ mapping.start_actual # EmptyStr => mapping.start_actual \in ColumnSet(actual)
        /\ mapping.end_actual # EmptyStr => mapping.end_actual \in ColumnSet(actual)

\* C4 (as claimed): when no candidate name is in both tables, no column of
\* either table contains 'task' and the tables share no column, infer_columns
\* raises: it returns no mapping.
C4_RaisesWithoutTaskColumn ==
    (pc # "loaded" /\ NoCandidateInBoth /\ NoTaskLikeColumn /\ NoCommonColumn)
        => (pc = "error" /\ err = "ValueError:infer_columns")

\* C5 (as claimed): when no candidate name is in both tables and no column of
\* either table contains 'task', but the tables share a column, the task
\* column of the mapping is a shared column and a warning says that a common
\* column was used as the task column.
C5_CommonColumnAsLastResort ==
    (pc # "loaded" /\ NoCandidateInBoth /\ NoTaskLikeColumn /\ ~NoCommonColumn)
        => /\ InferReturned
           /\ mapping.task \in ColumnSet(planned) \cap ColumnSet(actual)
           /\ \E i \in 1..Len(warn_msgs) : warn_msgs[i].id = "common_column_as_task"

-----------------------------------------------------------------------------
(* C6 *)

\* C6 (as claimed): with the task column in both tables, prepare_merged_df
\* raises only when both end-date slots of the mapping are empty, and when
\* exactly one is empty it returns the rows, every one with a null
\* Delay_Days.
C6_OneEndUnresolvedIsNotFatal ==
    (PrepareCalled /\ mapping.task \in ColumnSet(planned) \cap ColumnSet(actual)) =>
        /\ pc = "error" => (mapping.end_planned = EmptyStr /\ mapping.end_actual = EmptyStr)
        /\ (mapping.end_planned = EmptyStr) # (mapping.end_actual = EmptyStr) =>
              /\ PrepareReturned
              /\ \A k \in 1..Len(merged.rows) : merged.rows[k].Delay_Days = << >>

-----------------------------------------------------------------------------
(* C10 *)

\* the columns of a table that contain the direction token, and those that
\* contain a qualifier token as well
WithDirection(T, direction) == {c \in ColumnSet(T) : Contains(direction, Lower(c))}
Qualified(T, direction, qualifier) ==
    {c \in WithDirection(T, direction) :
        Contains(qualifier, Lower(c)) \/ Contains(kwDate, Lower(c))}

SlotAsClaimed(slot, T, direction, qualifier) ==
    /\ WithDirection(T, direction) = {} => slot = EmptyStr
    /\ Qualified(T, direction, qualifier) # {} => slot \in Qualified(T, direction, qualifier)
    /\ (Qualified(T, direction, qualifier) = {} /\ WithDirection(T, direction) # {})
          => slot \in WithDirection(T, direction)

\* C10 (as claimed): each of the four date slots is a column that contains
\* its direction token and a qualifier token ('planned'/'actual' of its table,
\* or 'date') whenever the table has such a column, a column with the
\* direction token alone only when it has none, and empty when no column
\* contains the direction token.
C10_QualifiedDateColumnPreferred ==
    InferReturned =>
        /\ SlotAsClaimed(mapping.start_planned, planned, kwStart, kwPlanned)
        /\ SlotAsClaimed(mapping.end_planned, planned, kwEnd, kwPlanned)
        /\ SlotAsClaimed(mapping.start_actual, actual, kwStart, kwActual)
        /\ SlotAsClaimed(mapping.end_actual, actual, kwEnd, kwActual)

\* C3 fails at the 'task' substring step too: a task-like column of one
\* table is reported although the other table names its own differently
TaskLikeColumnIsInBothTables ==
    (InferReturned /\ ~NoTaskLikeColumn) =>
        (mapping.task \in ColumnSet(planned) /\ mapping.task \in ColumnSet(actual))

-----------------------------------------------------------------------------
(* C7, C8, C9 *)

\* the rows of the reconciled output that have a delay, and their delays
Valid == {k \in 1..Len(merged.rows) : merged.rows[k].Delay_Days # << >>}
DelayAt(k) == merged.rows[k].Delay_Days[1]

RECURSIVE SumOver(_)
SumOver(K) ==
    IF K = {} THEN 0
    ELSE LET k == CHOOSE k \in K : TRUE IN DelayAt(k) + SumOver(K \ {k})

\* the valid rows have exactly these delays, one row each
DelaysAre(ds) ==
    \E f \in [1..Len(ds) -> Valid] :
        /\ \A i, j \in 1..Len(ds) : i # j => f[i] # f[j]
        /\ Cardinality(Valid) = Len(ds)
        /\ \A i \in 1..Len(ds) : DelayAt(f[i]) = ds[i]

\* C7: when some row has a delay, generate_insights counts the rows with a
\* positive delay as behind and those with a negative delay as ahead, sums the
\* positive delays only, and averages all the delays that are not null; the
\* rows without a delay change nothing. Delays 5, -3, 0, 2 give total 7 and
\* average 1.
C7_AggregatesOverValidDelays ==
    (pc = "done" /\ Valid # {}) =>
        /\ insights.num_tasks = Cardinality(Valid)
        /\ insights.num_behind = Cardinality({k \in Valid : DelayAt(k) > 0})
        /\ insights.num_ahead = Cardinality({k \in Valid : DelayAt(k) < 0})
        /\ insights.total_delay_days = SumOver({k \in Valid : DelayAt(k) > 0})
        /\ insights.avg_delay_days.den > 0
        /\ insights.avg_delay_days.num * Cardinality(Valid)
               = SumOver(Valid) * insights.avg_delay_days.den
        /\ DelaysAre(<<5, -3, 0, 2>>) =>
              /\ insights.total_delay_days = 7
              /\ insights.avg_delay_days.num = insights.avg_delay_days.den

\* C7 witness: the delays are 5, -3, 0 and 2, and a task that only the actual
\* table holds is in the output without a delay.
C7_Witness ==
    /\ pc = "done"
    /\ DelaysAre(<<5, -3, 0, 2>>)
    /\ \E k \in 1..Len(merged.rows) :
          merged.rows[k].l = 0 /\ merged.rows[k].Delay_Days = << >>
    /\ insights.total_delay_days = 7
    /\ insights.num_behind = 2
    /\ insights.num_ahead = 1

\* C8: the risk level is HIGH when the average delay is at least 10 or the
\* total positive delay exceeds 5 times the number of tasks, else MEDIUM when
\* the average is at least 3, else LOW; one task 5 days late is MEDIUM, and
\* average 1 with total 2 over one task is LOW.
C8_RiskLevelByFirstMatch ==
    /\ (pc = "done" /\ Valid # {}) =>
          LET avgGeq(n) == insights.avg_delay_days.num >= n * insights.avg_delay_days.den
              high == avgGeq(10) \/ insights.total_delay_days > 5 * insights.num_tasks
          IN  /\ insights.risk.level = "HIGH" <=> high
              /\ insights.risk.level = "MEDIUM" <=> (~high /\ avgGeq(3))
              /\ insights.risk.level = "LOW" <=> (~high /\ ~avgGeq(3))
              /\ DelaysAre(<<5>>) => insights.risk.level = "MEDIUM"
    /\ RiskLevel([num |-> 1, den |-> 1], 2, 1) = "LOW"
    /\ RiskLevel([num |-> 11, den |-> 1], 0, 1) = "HIGH"
    /\ RiskLevel([num |-> 4, den |-> 1], 4, 1) = "MEDIUM"

\* C8 witness: a single task with a delay, 5 days late, classified MEDIUM.
C8_Witness ==
    /\ pc = "done"
    /\ DelaysAre(<<5>>)
    /\ insights.risk.level = "MEDIUM"

\* further cases of C8: HIGH by the total alone, and LOW
C8_WitnessHighByTotal ==
    /\ pc = "done" /\ Valid # {}
    /\ insights.risk.level = "HIGH"
    /\ insights.avg_delay_days.num < 10 * insights.avg_delay_days.den
C8_WitnessLow ==
    pc = "done" /\ Valid # {} /\ insights.risk.level = "LOW"

CountFields == {"num_tasks", "num_behind", "num_ahead", "total_delay_days"}

\* C9 (as claimed): on an output without any delay generate_insights returns
\* a summary flagged as having no valid delay data in which the task count,
\* the behind count, the ahead count and the total positive delay are present
\* and zero.
C9_NoDataSummaryHasZeroCounts ==
    (pc = "done" /\ Valid = {}) =>
        /\ insights.summary = "No valid delay data detected."
        /\ CountFields \subseteq DOMAIN insights
        /\ \A f \in CountFields : insights[f] = 0

\* C9 (amended): generate_insights always returns, and on an output without
\* any delay the summary it returns holds the flag "No valid delay data
\* detected." and no other field: no count, no average, no risk.
C9_NoDataSummaryHoldsOnlyTheFlag ==
    /\ pc = "merged" => ENABLED GenerateInsights
    /\ (pc = "done" /\ Valid = {}) =>
          /\ DOMAIN insights = {"summary"}
          /\ insights.summary = "No valid delay data detected."
    /\ (pc = "done" /\ Valid # {}) => CountFields \subseteq DOMAIN insights

\* C9 witness: an output with rows, none of which has a delay, summarised.
C9_Witness ==
    /\ pc = "done"
    /\ Len(merged.rows) > 0
    /\ Valid = {}
    /\ insights.summary = "No valid delay data detected."

-----------------------------------------------------------------------------
(* C11 *)

PhaseResolved == Truthy(mapping.phase)

\* the phase values the sheets give to merged row k: the non-null cells of
\* the column mapping.phase names, in the planned and in the actual row
SourcePhases(k) ==
    LET row == merged.rows[k]
        inP == IF row.l > 0 /\ mapping.phase \in ColumnSet(planned)
               THEN {planned.rows[row.l][IndexOf(mapping.phase, planned.columns)]} ELSE {}
        inA == IF row.r > 0 /\ mapping.phase \in ColumnSet(actual)
               THEN {actual.rows[row.r][IndexOf(mapping.phase, actual.columns)]} ELSE {}
    IN  {c \in inP \cup inA : ~IsNull(c)}

\* the statistics of the phase table are those of the groups Group(v), v in
\* values, and its entries are in the order of the means, descending
PhaseStatisticsAre(values, Group(_)) ==
    LET t == insights.phases.table
    IN  /\ insights.phases.present
        /\ Len(t) = Cardinality(values)
        /\ {t[i].Phase : i \in 1..Len(t)} = values
        /\ \A i \in 1..Len(t) :
              LET K == Group(t[i].Phase)
              IN  /\ t[i].tasks_total = Cardinality(K)
                  /\ t[i].tasks_behind = Cardinality({k \in K : DelayAt(k) > 0})
                  /\ t[i].tasks_ahead = Cardinality({k \in K : DelayAt(k) < 0})
                  /\ t[i].avg_delay.den > 0
                  /\ t[i].avg_delay.num * Cardinality(K) = SumOver(K) * t[i].avg_delay.den
        /\ \A i \in 1..(Len(t) - 1) :
              t[i].avg_delay.num * t[i + 1].avg_delay.den
                  >= t[i + 1].avg_delay.num * t[i].avg_delay.den

\* C11 (as claimed): once generate_insights has returned on rows with a
\* delay, if infer_columns resolved a phase column (of the planned sheet, of
\* the actual sheet or of both) and a row with a delay has a phase value in
\* that column, the insights hold one entry per phase value, with the counts
\* of its tasks, of those behind and of those ahead and the mean delay, the
\* means descending; otherwise the insights hold no phase statistics.
C11_PhaseStatisticsPerResolvedPhase ==
    (pc = "done" /\ Valid # {}) =>
        IF PhaseResolved /\ \E k \in Valid : SourcePhases(k) # {}
        THEN PhaseStatisticsAre(UNION {SourcePhases(k) : k \in Valid},
                                LAMBDA v : {k \in Valid : v \in SourcePhases(k)})
        ELSE ~insights.phases.present

\* What does hold: the statistics are those of the Phase values that
\* prepare_merged_df kept in the rows it returned.
PhaseStatisticsOverKeptPhase ==
    (pc = "done" /\ Valid # {}) =>
        IF \E k \in Valid : ~IsNull(merged.rows[k].Phase)
        THEN PhaseStatisticsAre({merged.rows[k].Phase : k \in {h \in Valid : ~IsNull(merged.rows[h].Phase)}},
                                LAMBDA v : {k \in Valid : merged.rows[k].Phase = v})
        ELSE ~insights.phases.present

\* What also holds: the claim, for a phase column that is not in both sheets.
PhaseStatisticsWhenInOneSheet ==
    (mapping.phase \notin ColumnSet(planned) \cap ColumnSet(actual))
        => C11_PhaseStatisticsPerResolvedPhase

\* a phase column of both sheets, with phase values, and no statistics
PhaseOfBothSheetsIsLost ==
    /\ pc = "done" /\ Valid # {}
    /\ mapping.phase \in ColumnSet(planned) \cap ColumnSet(actual)
    /\ \E k \in Valid : SourcePhases(k) # {}
    /\ ~insights.phases.present

\* a phase column of one sheet only, and statistics of two phases with
\* different means
PhaseOfOneSheetIsKept ==
    /\ pc = "done" /\ Valid # {}
    /\ PhaseResolved
    /\ mapping.phase \notin ColumnSet(planned) \cap ColumnSet(actual)
    /\ insights.phases.present
    /\ Len(insights.phases.table) = 2
    /\ ~MeanGeqMean(insights.phases.table[2].avg_delay, insights.phases.table[1].avg_delay)

-----------------------------------------------------------------------------
(* C12 *)

\* the elements of s at the positions I, in order
Pick(s, I) ==
    [n \in 1..Cardinality(I) |->
        s[CHOOSE i \in I : Cardinality({j \in I : j < i}) = n - 1]]

\* A text with the surrounding blanks trimmed and every run of inner blanks
\* collapsed to one blank; the letters keep their case.
Normalized(s) ==
    LET first == {i \in 1..Len(s) : s[i] # " " \/ (i > 1 /\ s[i - 1] # " ")}
        t     == Pick(s, first)
    IN  IF t # << >> /\ t[Len(t)] = " " THEN SubSeq(t, 1, Len(t) - 1) ELSE t

TaskText(T, i) == T.rows[i][IndexOf(mapping.task, T.columns)].s

\* planned row l and actual row r are joined into one row of the output
Joined(l, r) == \E k \in 1..Len(merged.rows) : merged.rows[k].l = l /\ merged.rows[k].r = r

\* C12 (as claimed): in the output of prepare_merged_df a planned row and an
\* actual row are joined into one row exactly when their task cells are equal
\* after trimming the surrounding blanks and collapsing the runs of inner
\* blanks; cells that differ in letter case are not joined, and the Task of
\* a row keeps the case of its cell.
C12_JoinKeyIsWhitespaceNormalized ==
    PrepareReturned =>
        /\ \A l \in 1..Len(planned.rows), r \in 1..Len(actual.rows) :
              Joined(l, r) <=> Normalized(TaskText(planned, l)) = Normalized(TaskText(actual, r))
        /\ \A k \in 1..Len(merged.rows) :
              LET row == merged.rows[k]
              IN  Normalized(row.Task.s) =
                      Normalized(IF row.l > 0 THEN TaskText(planned, row.l)
                                 ELSE TaskText(actual, row.r))

\* What does hold: the rows are joined exactly when their task cells are
\* equal as they stand, blanks included, and the Task of a row is that cell.
JoinKeyIsTheRawCell ==
    PrepareReturned =>
        /\ \A l \in 1..Len(planned.rows), r \in 1..Len(actual.rows) :
              Joined(l, r) <=> TaskText(planned, l) = TaskText(actual, r)
        /\ \A k \in 1..Len(merged.rows) :
              LET row == merged.rows[k]
              IN  row.Task.s = (IF row.l > 0 THEN TaskText(planned, row.l)
                                ELSE TaskText(actual, row.r))

\* 'A ' planned and 'A' actual come out as two rows, neither with a delay
TrailingBlankSplitsTheTask ==
    /\ PrepareReturned
    /\ \E l \in 1..Len(planned.rows), r \in 1..Len(actual.rows) :
          /\ TaskText(planned, l) = <<"A", " ">>
          /\ TaskText(actual, r) = <<"A">>
          /\ ~Joined(l, r) /\ Joined(l, 0) /\ Joined(0, r)
    /\ Valid = {}

\* 'A  B' and 'A B' are not joined, nor are 'A' and 'a'
InnerBlanksAndCaseSplitTheTask ==
    /\ PrepareReturned
    /\ TaskText(planned, 1) = <<"A", " ", " ", "B">>
    /\ Len(actual.rows) = 2
    /\ TaskText(actual, 1) = <<"A", " ", "B">>
    /\ TaskText(actual, 2) = <<"A", " ", " ", "B">>
    /\ ~Joined(1, 1) /\ Joined(1, 2)

-----------------------------------------------------------------------------
(* C13 *)

\* the two sheets use one column name for their end date: infer_columns
\* mapped the planned and the actual end to the same name
SameEndName ==
    /\ InferReturned
    /\ Truthy(mapping.end_planned)
    /\ mapping.end_planned = mapping.end_actual

\* the parsed end dates of merged row k as read from the column called name
\* of the planned sheet and of the actual sheet (NaT for a missing row)
EndOfPlannedRow(k, name) ==
    IF merged.rows[k].l = 0 THEN NaT
    ELSE robust_date_parse(planned.rows[merged.rows[k].l][IndexOf(name, planned.columns)])
EndOfActualRow(k, name) ==
    IF merged.rows[k].r = 0 THEN NaT
    ELSE robust_date_parse(actual.rows[merged.rows[k].r][IndexOf(name, actual.columns)])

\* C13: when the planned and the actual sheet use the same column name for
\* their end date, prepare_merged_df does not fail for a missing column, it
\* reads the planned end dates from the column with the suffix _PL and the
\* actual ones from the column with the suffix _AC, and in every row the
\* planned end date is that of the planned sheet's column and the actual end
\* date that of the actual sheet's column.
C13_SameEndNameReadFromOwnSheet ==
    SameEndName =>
        /\ err # "KeyError:end_column"
        /\ PrepareReturned =>
              /\ merged.end_pl = mapping.end_planned \o sfxPL
              /\ merged.end_ac = mapping.end_actual \o sfxAC
              /\ \A k \in 1..Len(merged.rows) :
                    /\ merged.rows[k].end_planned_dt = EndOfPlannedRow(k, mapping.end_planned)
                    /\ merged.rows[k].end_actual_dt = EndOfActualRow(k, mapping.end_actual)

\* C13 witness: both sheets call their end date 'End Date'; the output reads
\* 'End Date_PL' and 'End Date_AC' and a row of a task of both sheets has
\* different planned and actual end dates, hence a delay that is not 0.
C13_Witness ==
    /\ PrepareReturned
    /\ SameEndName
    /\ mapping.end_planned = nEndDate
    /\ merged.end_pl = nEndDate \o sfxPL
    /\ merged.end_ac = nEndDate \o sfxAC
    /\ \E k \in Valid : DelayAt(k) # 0

\* What also holds, whatever the names: when both end dates were mapped, the
\* planned end dates are read from a column of the planned sheet and the
\* actual ones from a column of the actual sheet.
MappedEndsReadFromOwnSheet ==
    (PrepareCalled /\ Truthy(mapping.end_planned) /\ Truthy(mapping.end_actual)) =>
        /\ err # "KeyError:end_column"
        /\ PrepareReturned =>
              \A k \in 1..Len(merged.rows) :
                  /\ merged.rows[k].end_planned_dt = EndOfPlannedRow(k, mapping.end_planned)
                  /\ merged.rows[k].end_actual_dt = EndOfActualRow(k, mapping.end_actual)

=============================================================================
